---- MODULE Spec2Model ----
(***************************************************************************)
(* A model of src/minimax_ai.py: the tic-tac-toe move selector MinimaxAi.  *)
(* decide_move, the minimax evaluator _max_score, the move generator       *)
(* _move_scores and the immediate-win finder _find_win_move.               *)
(*                                                                         *)
(* A board is a function from the cell indices 0..8 to {"X", "O", None}.   *)
(* Probabilities and the results of random.random() are counted in units   *)
(* of 1/Scale: think_chance[k] ranges over 0..Scale (0.0 to 1.0) and a     *)
(* draw of random.random() over 0..Scale-1 (the half-open interval [0,1)). *)
(***************************************************************************)
EXTENDS Integers, Sequences, FiniteSets, TLC

VARIABLES
    think_chance,   \* the pair MinimaxAi.think_chance, in units of 1/Scale
    board_view,     \* the argument board_view of the call to decide_move
    current_side,   \* the argument current_side of the call
    pc,             \* "idle", "choosing" (before random.choice(best_move)), "returned"
    deep,           \* a draw r1 of random.random() was below think_chance[0]
    obvious,        \* a draw r2 of random.random() was below think_chance[1]
    path,           \* the return statement reached: "empty", "win", "block", "random", "deep"
    move_scores,    \* the pairs the generator of the deep path yielded
    best_move,      \* the list best_move of the deep path
    result,         \* the value decide_move (or _find_win_move) returned
    maximizing,     \* the argument is_maximizing of a call to _max_score
    max_score,      \* the value _max_score returned
    the_board,      \* the list board = list(board_view) that the search mutates
    frames,         \* the running generators of _move_scores, the root first
    event           \* the last step of the search

vars == <<think_chance, board_view, current_side, pc, deep, obvious, path,
          move_scores, best_move, result, maximizing, max_score,
          the_board, frames, event>>

\* the variables of the search run step by step
searchVars == <<the_board, frames, event>>

\* the variables of a call to _max_score alone
evalVars == <<maximizing, max_score>>

\* the variables of a call to decide_move that a call to another function
\* leaves alone
decideVars == <<deep, obvious, path, move_scores, best_move>>

---------------------------------------------------------------------------
(* Bounds of the model *)

\* think_chance and random.random() are counted in units of 1/Scale
Scale == 2

\* decide_move is called on positions with at most MaxEmpty empty cells
\* (besides the entirely empty board and the scenario boards)
MaxEmpty == 3

\* with the default think_chance, decide_move is called on positions with at
\* most MaxDeepEmpty empty cells, and so is _max_score
MaxDeepEmpty == 5

---------------------------------------------------------------------------
(* Data model *)

\* None as the value of a cell
None == "None"

\* a value of type int | None (or float | None): << >> is None, <<i>> is i
Nothing == << >>

Some(i) == <<i>>

Side == {"X", "O"}

Cells == 0..8

CellSeq == <<0, 1, 2, 3, 4, 5, 6, 7, 8>>

Board == [Cells -> Side \cup {None}]

EmptyBoard == [i \in Cells |-> None]

\* Side.swap_side of the game module
swap_side(side) == IF side = "X" THEN "O" ELSE "X"

\* has_won(board, side) of the game module: three-in-a-row of side on one of
\* the 8 lines
has_won(board, side) ==
    \/ board[0] = side /\ board[1] = side /\ board[2] = side
    \/ board[3] = side /\ board[4] = side /\ board[5] = side
    \/ board[6] = side /\ board[7] = side /\ board[8] = side
    \/ board[0] = side /\ board[3] = side /\ board[6] = side
    \/ board[1] = side /\ board[4] = side /\ board[7] = side
    \/ board[2] = side /\ board[5] = side /\ board[8] = side
    \/ board[0] = side /\ board[4] = side /\ board[8] = side
    \/ board[2] = side /\ board[4] = side /\ board[6] = side

\* all(tile is None for tile in board_view)
AllNone(board) == \A i \in Cells : board[i] = None

\* None not in board
Full(board) == \A i \in Cells : board[i] # None

\* avail_moves with the filter on the tile left out
avail_moves_unfiltered(board) == SelectSeq(CellSeq, LAMBDA i : TRUE)

\* [i for i, tile in enumerate(board_view) if tile is None]
avail_moves(board) == SelectSeq(CellSeq, LAMBDA i : board[i] = None)

Range(seq) == {seq[k] : k \in 1..Len(seq)}

---------------------------------------------------------------------------
(* _max_score and _move_scores *)

RECURSIVE _max_score(_, _, _)

\* MoveScoreAt with the mark of current_side placed for either value of
\* is_maximizing
MoveScoreAtOwnMark(board, current, is_maximizing, i) ==
    _max_score([board EXCEPT ![i] = current], current, is_maximizing)

\* The body of the generator's loop for the empty cell i: make the move on
\* the board, evaluate it, undo the move.  The value is the score yielded
\* with i.  (SpecSearch below runs the same loop on one mutable list.)
MoveScoreAt(board, current, is_maximizing, i) ==
    LET marked == [board EXCEPT ![i] = IF is_maximizing THEN current
                                       ELSE swap_side(current)]
    IN  _max_score(marked, current, is_maximizing)

\* The generator, fully consumed: the sequence of the (move, score) pairs it
\* yields
_move_scores(board, current, is_maximizing) ==
    LET empties == SelectSeq(CellSeq, LAMBDA i : board[i] = None)
        pairs == [k \in 1..Len(empties) |->
                    <<empties[k], MoveScoreAt(board, current, is_maximizing, empties[k])>>]
    IN  SubSeq(pairs, 1, Len(empties))

SeqMax(scores) == CHOOSE a \in scores : \A c \in scores : c =< a

\* min(scores) taken as max(scores)
SeqMinTakesMax(scores) == CHOOSE a \in scores : \A c \in scores : c =< a

SeqMin(scores) == CHOOSE a \in scores : \A c \in scores : c >= a

\* _max_score with the test of the full board ahead of the tests of a win
_max_score_full_first(board, current, is_maximizing) ==
    IF Full(board) THEN 0
    ELSE IF is_maximizing /\ has_won(board, current) THEN 1
    ELSE IF ~is_maximizing /\ has_won(board, swap_side(current)) THEN -1
    ELSE LET flipped == ~is_maximizing
             ms == _move_scores(board, current, flipped)
             scores == {ms[k][2] : k \in 1..Len(ms)}
         IN  IF flipped THEN SeqMax(scores) ELSE SeqMin(scores)

_max_score(board, current, is_maximizing) ==
    IF is_maximizing /\ has_won(board, current) THEN 1
    ELSE IF ~is_maximizing /\ has_won(board, swap_side(current)) THEN -1
    ELSE IF Full(board) THEN 0
    ELSE LET flipped == ~is_maximizing
             ms == _move_scores(board, current, flipped)
             scores == {ms[k][2] : k \in 1..Len(ms)}
         IN  IF flipped THEN SeqMax(scores) ELSE SeqMin(scores)

---------------------------------------------------------------------------
(* _find_win_move *)

to_checks ==
    << <<0, 1, 2>>, <<3, 4, 5>>, <<6, 7, 8>>,
       <<0, 3, 6>>, <<1, 4, 7>>, <<2, 5, 8>>,
       <<0, 4, 8>>, <<2, 4, 6>> >>

\* LineCount counting the cells of the other side
LineCountOther(board, side, to_check) ==
    Cardinality({j \in 1..3 : board[to_check[j]] # None /\ board[to_check[j]] # side})

\* count after the inner loop over the line to_check
LineCount(board, side, to_check) ==
    Cardinality({j \in 1..3 : board[to_check[j]] # None /\ board[to_check[j]] = side})

\* empty_spot after the inner loop over the line to_check: the last empty
\* cell of the line, None when the line has none
LineEmptySpot(board, to_check) ==
    IF board[to_check[3]] = None THEN Some(to_check[3])
    ELSE IF board[to_check[2]] = None THEN Some(to_check[2])
    ELSE IF board[to_check[1]] = None THEN Some(to_check[1])
    ELSE Nothing

\* the test with the truth value of empty_spot, which is false for the cell 0
LineFoundTruthy(count, empty_spot) ==
    count = 2 /\ empty_spot # Nothing /\ empty_spot # Some(0)

\* the test that ends the scan: count == 2 and empty_spot is not None
LineFound(count, empty_spot) == count = 2 /\ empty_spot # Nothing

RECURSIVE FindFrom(_, _, _)
FindFrom(board, side, k) ==
    IF k > Len(to_checks) THEN Nothing
    ELSE IF LineFound(LineCount(board, side, to_checks[k]),
                      LineEmptySpot(board, to_checks[k]))
         THEN LineEmptySpot(board, to_checks[k])
         ELSE FindFrom(board, side, k + 1)

_find_win_move(board, side) == FindFrom(board, side, 1)

---------------------------------------------------------------------------
(* decide_move: the loop over the generator that collects the best moves *)

\* BestStep without the elif branch: a move that ties is dropped
BestStepDropsTies(acc, move, score) ==
    IF score > acc[2] THEN << <<move>>, score >>
    ELSE acc

\* one iteration of the for loop: acc = <<best_move, max_score>>
BestStep(acc, move, score) ==
    IF score > acc[2] THEN << <<move>>, score >>
    ELSE IF score = acc[2] THEN << Append(acc[1], move), acc[2] >>
    ELSE acc

RECURSIVE BestFrom(_, _, _)
BestFrom(ms, k, acc) ==
    IF k > Len(ms) THEN acc
    ELSE BestFrom(ms, k + 1, BestStep(acc, ms[k][1], ms[k][2]))

\* best_move after the loop; ms is not empty (next(move_scores) gives its
\* first pair)
BestMoves(ms) == BestFrom(ms, 2, << <<ms[1][1]>>, ms[1][2] >>)[1]

---------------------------------------------------------------------------
(* The calls of decide_move the model makes *)

Count(board, side) == Cardinality({i \in Cells : board[i] = side})

NumEmpty(board) == Cardinality({i \in Cells : board[i] = None})

\* side is to move on board in a game of alternating moves that is not over
IsPosition(board, side) ==
    /\ ~Full(board)
    /\ ~has_won(board, "X") /\ ~has_won(board, "O")
    /\ Count(board, swap_side(side)) - Count(board, side) \in {0, 1}

\* [X,X,None,None,O,None,None,None,None]
ScenarioWin == [EmptyBoard EXCEPT ![0] = "X", ![1] = "X", ![4] = "O"]

\* [X,X,None,O,O,None,None,None,None]
ScenarioBlock == [EmptyBoard EXCEPT ![0] = "X", ![1] = "X", ![3] = "O", ![4] = "O"]

Calls ==
    {c \in Board \X Side :
        \/ IsPosition(c[1], c[2]) /\ NumEmpty(c[1]) =< MaxEmpty
        \/ c[1] \in {EmptyBoard, ScenarioWin, ScenarioBlock}}

Chance == 0..Scale

Draw == 0..(Scale - 1)

---------------------------------------------------------------------------
(* decide_move *)

Init ==
    /\ think_chance \in Chance \X Chance
    /\ pc = "idle"
    /\ board_view = None /\ current_side = None
    /\ deep = FALSE /\ obvious = FALSE /\ path = None
    /\ move_scores = << >> /\ best_move = << >> /\ result = Nothing
    /\ maximizing = FALSE /\ max_score = 0
    /\ the_board = None /\ frames = << >> /\ event = None

\* random.random() >= self.think_chance[0], for some outcome of the draw
SkipsDeep == {d1 \in Draw : d1 >= think_chance[1]} # {}

\* its negation, for some outcome of the draw
ThinksDeep == {d1 \in Draw : ~(d1 >= think_chance[1])} # {}

\* random.random() < self.think_chance[1], for some outcome of the draw
ThinksObvious == {d2 \in Draw : d2 < think_chance[2]} # {}

\* its negation, for some outcome of the draw
SkipsObvious == {d2 \in Draw : ~(d2 < think_chance[2])} # {}

Return(board, side, considered, by, at) ==
    /\ board_view' = board /\ current_side' = side
    /\ obvious' = considered /\ path' = by /\ result' = at
    /\ pc' = "returned"
    /\ UNCHANGED <<think_chance, deep, move_scores, best_move, evalVars, searchVars>>

\* EmptyShortcut with random.randrange(0, 8)
EmptyShortcutShortRange(board, side) ==
    /\ AllNone(board)
    /\ \E at \in 0..7 : Return(board, side, FALSE, "empty", Some(at))

\* the entirely empty board: return random.randrange(0, 9)
EmptyShortcut(board, side) ==
    /\ AllNone(board)
    /\ \E at \in 0..8 : Return(board, side, FALSE, "empty", Some(at))

\* deep search skipped, obvious moves considered, a winning cell found
ObviousWin(board, side) ==
    /\ ~AllNone(board)
    /\ SkipsDeep
    /\ ThinksObvious
    /\ _find_win_move(board, side) # Nothing
    /\ Return(board, side, TRUE, "win", _find_win_move(board, side))

\* ObviousBlock without the winning-cell check ahead of it
ObviousBlockFirst(board, side) ==
    /\ ~AllNone(board)
    /\ SkipsDeep
    /\ ThinksObvious
    /\ _find_win_move(board, swap_side(side)) # Nothing
    /\ Return(board, side, TRUE, "block", _find_win_move(board, swap_side(side)))

\* deep search skipped, obvious moves considered, no winning cell, a
\* winning cell of the other side found
ObviousBlock(board, side) ==
    /\ ~AllNone(board)
    /\ SkipsDeep
    /\ ThinksObvious
    /\ _find_win_move(board, side) = Nothing
    /\ _find_win_move(board, swap_side(side)) # Nothing
    /\ Return(board, side, TRUE, "block", _find_win_move(board, swap_side(side)))

\* deep search skipped, obvious moves considered and none found:
\* return random.choice(avail_moves)
NoObviousMove(board, side) ==
    /\ ~AllNone(board)
    /\ SkipsDeep
    /\ ThinksObvious
    /\ _find_win_move(board, side) = Nothing
    /\ _find_win_move(board, swap_side(side)) = Nothing
    /\ \E at \in Range(avail_moves(board)) :
          Return(board, side, TRUE, "random", Some(at))

\* deep search skipped, obvious moves not considered:
\* return random.choice(avail_moves)
RandomMove(board, side) ==
    /\ ~AllNone(board)
    /\ SkipsDeep
    /\ SkipsObvious
    /\ \E at \in Range(avail_moves(board)) :
          Return(board, side, FALSE, "random", Some(at))

\* the deep search: consume the generator, collect the best moves
DeepSearch(board, side) ==
    /\ move_scores' = _move_scores(board, side, TRUE)
    /\ best_move' = BestMoves(move_scores')
    /\ board_view' = board /\ current_side' = side
    /\ deep' = TRUE
    /\ pc' = "choosing"
    /\ UNCHANGED <<think_chance, obvious, path, result, evalVars, searchVars>>

\* a board that is not empty, and the AI thinks deeply
DeepThink(board, side) ==
    /\ ~AllNone(board)
    /\ ThinksDeep
    /\ DeepSearch(board, side)

\* return random.choice(best_move)
ChooseBest ==
    /\ pc = "choosing"
    /\ \E at \in Range(best_move) : result' = Some(at)
    /\ path' = "deep"
    /\ pc' = "returned"
    /\ UNCHANGED <<think_chance, board_view, current_side, deep, obvious,
                   move_scores, best_move, evalVars, searchVars>>

Next ==
    \/ pc = "idle" /\ \E c \in Calls : EmptyShortcut(c[1], c[2])
    \/ pc = "idle" /\ \E c \in Calls : ObviousWin(c[1], c[2])
    \/ pc = "idle" /\ \E c \in Calls : ObviousBlock(c[1], c[2])
    \/ pc = "idle" /\ \E c \in Calls : NoObviousMove(c[1], c[2])
    \/ pc = "idle" /\ \E c \in Calls : RandomMove(c[1], c[2])
    \/ pc = "idle" /\ \E c \in Calls : DeepThink(c[1], c[2])
    \/ ChooseBest

Spec == Init /\ [][Next]_vars

---------------------------------------------------------------------------
(* decide_move with the default think_chance = (1.0, 1.0), on deeper
   positions *)

\* think_chance: tuple[float, float] = (1.0, 1.0)
DefaultThinkChance == <<Scale, Scale>>

DeepCalls ==
    {c \in Board \X Side :
        IsPosition(c[1], c[2]) /\ ~AllNone(c[1]) /\ NumEmpty(c[1]) =< MaxDeepEmpty}

InitDeep ==
    /\ Init
    /\ think_chance = DefaultThinkChance

NextDeep ==
    \/ pc = "idle" /\ \E c \in DeepCalls : DeepThink(c[1], c[2])
    \/ ChooseBest

SpecDeep == InitDeep /\ [][NextDeep]_vars

---------------------------------------------------------------------------
(* The first move of a game: the shortcut of decide_move on the entirely
   empty board, and beside it the deep search of the same board, as
   decide_move with the default think_chance would run it without the
   shortcut *)

OpeningShortcut == pc = "idle" /\ \E side \in Side : EmptyShortcut(EmptyBoard, side)

OpeningSearch ==
    /\ pc = "idle"
    /\ think_chance = DefaultThinkChance
    /\ \E side \in Side : DeepSearch(EmptyBoard, side)

NextOpening ==
    \/ OpeningShortcut
    \/ OpeningSearch
    \/ ChooseBest

SpecOpening == Init /\ [][NextOpening]_vars

---------------------------------------------------------------------------
(* The search step by step on the one list the_board: the generators of
   _move_scores and the calls of _max_score that consume them.

   A frame is one generator: maximizing is its argument is_maximizing; i its
   loop variable, Some(cell) while the mark is on the board; next the next
   index range(len(board)) gives its filter; yielded the pairs it yielded;
   at is "ready" (not started, or suspended at its yield), "called"
   (_max_score entered for the move i) or "scored" (that call returned
   scored); start is the_board as it was when the generator was made, which
   is the_board as it was when the _max_score that consumes it was called. *)

SearchCalls == {c \in Calls : ~AllNone(c[1])}

NewFrame(is_maximizing, board) ==
    [maximizing |-> is_maximizing, i |-> Nothing, next |-> 0, yielded |-> << >>,
     at |-> "ready", scored |-> 0, start |-> board]

Top == frames[Len(frames)]

SetTop(frame) == [frames EXCEPT ![Len(frames)] = frame]

\* the indices the filter board[i] is None lets through, from index from on
StillEmpty(from) == {j \in from..8 : the_board[j] = None}

FirstOf(indices) == CHOOSE j \in indices : \A l \in indices : j =< l

InitSearch ==
    /\ think_chance = DefaultThinkChance
    /\ pc = "searching"
    /\ \E c \in SearchCalls :
          /\ board_view = c[1] /\ current_side = c[2]
          /\ the_board = c[1]
          /\ frames = << NewFrame(TRUE, c[1]) >>
    /\ event = [kind |-> "start"]
    /\ deep = TRUE /\ obvious = FALSE /\ path = None
    /\ move_scores = << >> /\ best_move = << >> /\ result = Nothing
    /\ maximizing = FALSE /\ max_score = 0

SearchFrame == UNCHANGED <<think_chance, board_view, current_side, pc, deep, obvious,
                           path, best_move, result, evalVars>>

\* the generator resumes and finds its next empty cell: it places the mark
\* and calls _max_score
Place ==
    /\ frames # << >> /\ Top.at = "ready"
    /\ StillEmpty(Top.next) # {}
    /\ LET j == FirstOf(StillEmpty(Top.next))
           mark == IF Top.maximizing THEN current_side ELSE swap_side(current_side)
       IN  /\ the_board' = [the_board EXCEPT ![j] = mark]
           /\ frames' = SetTop([Top EXCEPT !.i = Some(j), !.next = j + 1,
                                            !.at = "called"])
           /\ event' = [kind |-> "place", move |-> j, mark |-> mark]
    /\ UNCHANGED move_scores
    /\ SearchFrame

\* the value of the base case of _max_score on the_board
BaseScore(is_maximizing) ==
    IF is_maximizing /\ has_won(the_board, current_side) THEN Some(1)
    ELSE IF ~is_maximizing /\ has_won(the_board, swap_side(current_side)) THEN Some(-1)
    ELSE IF Full(the_board) THEN Some(0)
    ELSE Nothing

\* _max_score returns from a base case
BaseCase ==
    /\ frames # << >> /\ Top.at = "called"
    /\ BaseScore(Top.maximizing) # Nothing
    /\ frames' = SetTop([Top EXCEPT !.at = "scored",
                                    !.scored = BaseScore(Top.maximizing)[1]])
    /\ event' = [kind |-> "return", entry |-> the_board, recursive |-> FALSE]
    /\ UNCHANGED <<the_board, move_scores>>
    /\ SearchFrame

\* _max_score flips is_maximizing and makes the generator of the moves
Recurse ==
    /\ frames # << >> /\ Top.at = "called"
    /\ BaseScore(Top.maximizing) = Nothing
    /\ frames' = Append(frames, NewFrame(~Top.maximizing, the_board))
    /\ event' = [kind |-> "recurse"]
    /\ UNCHANGED <<the_board, move_scores>>
    /\ SearchFrame

\* a generator below the root is exhausted: the _max_score that consumed it
\* returns the max or the min of the scores
Exhaust ==
    /\ Len(frames) > 1 /\ Top.at = "ready"
    /\ StillEmpty(Top.next) = {}
    /\ LET scores == {Top.yielded[k][2] : k \in 1..Len(Top.yielded)}
           value == IF Top.maximizing THEN SeqMax(scores) ELSE SeqMin(scores)
           caller == frames[Len(frames) - 1]
       IN  frames' = [SubSeq(frames, 1, Len(frames) - 1) EXCEPT
                         ![Len(frames) - 1] =
                            [caller EXCEPT !.at = "scored", !.scored = value]]
    /\ event' = [kind |-> "return", entry |-> Top.start, recursive |-> TRUE,
                 start |-> Top.start, yielded |-> Top.yielded]
    /\ UNCHANGED <<the_board, move_scores>>
    /\ SearchFrame

\* UndoYield with the mark left on the board
UndoYieldKeepsMark ==
    /\ frames # << >> /\ Top.at = "scored"
    /\ frames' = SetTop([Top EXCEPT !.i = Nothing, !.at = "ready",
                                    !.yielded = Append(@, <<Top.i[1], Top.scored>>)])
    /\ event' = [kind |-> "yield", move |-> Top.i[1]]
    /\ UNCHANGED <<the_board, move_scores>>
    /\ SearchFrame

\* the generator undoes its move and yields the pair
UndoYield ==
    /\ frames # << >> /\ Top.at = "scored"
    /\ the_board' = [the_board EXCEPT ![Top.i[1]] = None]
    /\ frames' = SetTop([Top EXCEPT !.i = Nothing, !.at = "ready",
                                    !.yielded = Append(@, <<Top.i[1], Top.scored>>)])
    /\ event' = [kind |-> "yield", move |-> Top.i[1]]
    /\ UNCHANGED move_scores
    /\ SearchFrame

\* the root generator is exhausted: the loop of decide_move has all the pairs
Finish ==
    /\ Len(frames) = 1 /\ Top.at = "ready"
    /\ StillEmpty(Top.next) = {}
    /\ move_scores' = Top.yielded
    /\ frames' = << >>
    /\ event' = [kind |-> "finish", start |-> Top.start, yielded |-> Top.yielded]
    /\ UNCHANGED the_board
    /\ SearchFrame

NextSearch ==
    \/ Place
    \/ BaseCase
    \/ Recurse
    \/ Exhaust
    \/ UndoYield
    \/ Finish

SpecSearch == InitSearch /\ [][NextSearch]_vars

---------------------------------------------------------------------------
(* _find_win_move on every board *)

InitFind ==
    /\ think_chance = DefaultThinkChance
    /\ pc = "idle"
    /\ board_view \in Board /\ current_side \in Side
    /\ deep = FALSE /\ obvious = FALSE /\ path = None
    /\ move_scores = << >> /\ best_move = << >> /\ result = Nothing
    /\ maximizing = FALSE /\ max_score = 0
    /\ the_board = None /\ frames = << >> /\ event = None

FindWinMove ==
    /\ pc = "idle"
    /\ result' = _find_win_move(board_view, current_side)
    /\ pc' = "found"
    /\ UNCHANGED <<think_chance, board_view, current_side, decideVars, evalVars,
                   searchVars>>

NextFind == FindWinMove

SpecFind == InitFind /\ [][NextFind]_vars

---------------------------------------------------------------------------
(* _max_score on the boards that alternating legal moves reach *)

\* the last mark of side last completed its line
JustWon(board, last) ==
    \E i \in Cells :
        board[i] = last /\ ~has_won([board EXCEPT ![i] = None], last)

\* board is reached by alternating legal moves, the last of them by last
\* (no move follows a win)
Reached(board, last) ==
    /\ Count(board, last) >= 1
    /\ Count(board, last) - Count(board, swap_side(last)) \in {0, 1}
    /\ ~has_won(board, swap_side(last))
    /\ has_won(board, last) => JustWon(board, last)

\* the arguments <<board, current_side, is_maximizing>>: is_maximizing is
\* true exactly when current_side made the last move
EvalCalls ==
    {c \in Board \X Side \X BOOLEAN :
        /\ NumEmpty(c[1]) =< MaxDeepEmpty
        /\ Reached(c[1], IF c[3] THEN c[2] ELSE swap_side(c[2]))}

InitEval ==
    /\ think_chance = DefaultThinkChance
    /\ pc = "idle"
    /\ \E c \in EvalCalls :
          board_view = c[1] /\ current_side = c[2] /\ maximizing = c[3]
    /\ deep = FALSE /\ obvious = FALSE /\ path = None
    /\ move_scores = << >> /\ best_move = << >> /\ result = Nothing
    /\ max_score = 0
    /\ the_board = None /\ frames = << >> /\ event = None

Evaluate ==
    /\ pc = "idle"
    /\ max_score' = _max_score(board_view, current_side, maximizing)
    /\ pc' = "evaluated"
    /\ UNCHANGED <<think_chance, board_view, current_side, decideVars, result,
                   maximizing, searchVars>>

NextEval == Evaluate

SpecEval == InitEval /\ [][NextEval]_vars

---------------------------------------------------------------------------
(* Claims about decide_move, checked under Spec *)

Returned == pc = "returned"

\* the empty cells of board on which a mark of side completes a line
WinCells(board, side) ==
    {i \in Cells : board[i] = None /\ has_won([board EXCEPT ![i] = side], side)}

\* the moves of the pairs ms whose score is the largest score of ms
ArgMax(ms) ==
    {ms[k][1] : k \in {j \in 1..Len(ms) : \A l \in 1..Len(ms) : ms[l][2] =< ms[j][2]}}

\* decide_move can return the move at from the current state
CanReturn(at) == ENABLED (ChooseBest /\ result' = Some(at))

\* C1: on every board with an empty cell, for every side, every pair of
\* probabilities and every outcome of the draws, decide_move returns the
\* index in 0..8 of a cell that is empty in the board it was given, on each
\* of its four paths.
C1_ReturnsEmptyCell ==
    Returned =>
        /\ result # Nothing
        /\ result[1] \in 0..8
        /\ board_view[result[1]] = None
        /\ path \in {"empty", "deep", "win", "block", "random"}

C1_Witness ==
    /\ Returned /\ path = "random" /\ obvious
    /\ NumEmpty(board_view) = 3 /\ result = Some(8)

\* C3 as stated: on [X,X,None,None,O,None,None,None,None] with X to move and
\* think_chance[0] = 1.0, decide_move returns 2 for every outcome of the
\* tie-break.
C3_MustReturnTwo ==
    (Returned /\ board_view = ScenarioWin /\ current_side = "X"
        /\ think_chance[1] = Scale)
    => result = Some(2)

\* C3 as amended: on that board decide_move returns one of the moves with
\* the maximum minimax score, which is 1; the cell 2 is one of them, and X
\* can still force the win after the move returned.
C3_ReturnsAWinningMove ==
    /\ (pc = "choosing" /\ board_view = ScenarioWin /\ current_side = "X"
            /\ think_chance[1] = Scale)
        => /\ 2 \in Range(best_move)
           /\ {at \in Cells : CanReturn(at)} = {2, 3, 6, 7, 8}
           /\ \A k \in 1..Len(move_scores) :
                 move_scores[k][1] \in Range(best_move) <=> move_scores[k][2] = 1
    /\ (Returned /\ board_view = ScenarioWin /\ current_side = "X"
            /\ think_chance[1] = Scale)
        => /\ path = "deep"
           /\ result[1] \in Range(best_move)
           /\ _max_score([board_view EXCEPT ![result[1]] = "X"], "X", TRUE) = 1

C3_Witness ==
    /\ Returned /\ board_view = ScenarioWin /\ current_side = "X"
    /\ think_chance[1] = Scale /\ path = "deep" /\ result = Some(2)

\* C4 as stated: on [X,X,None,O,O,None,None,None,None] with X to move,
\* think_chance = (0, 1.0), decide_move returns 5, the block of the row 3-4-5.
C4_MustReturnFive ==
    (Returned /\ board_view = ScenarioBlock /\ current_side = "X"
        /\ think_chance = <<0, Scale>>)
    => result = Some(5)

\* C4 as amended: on that board X has a winning cell of its own, 2, and
\* decide_move returns it by the winning-move check, for every outcome of
\* the draws; the block 5 is never returned.
C4_ReturnsOwnWin ==
    (Returned /\ board_view = ScenarioBlock /\ current_side = "X"
        /\ think_chance = <<0, Scale>>)
    => /\ result = Some(2)
       /\ path = "win"
       /\ ~deep /\ obvious

C4_Witness ==
    /\ Returned /\ board_view = ScenarioBlock /\ current_side = "X"
    /\ think_chance = <<0, Scale>> /\ path = "win"

\* C7: on a non-empty board, with deep search skipped and the obvious moves
\* considered: when current_side has an immediate winning cell the result
\* is a winning cell of current_side, also when the other side has one too;
\* the result is a blocking cell only when current_side has none and the
\* other side has one; and it is a random empty cell only when neither has.
C7_WinBeforeBlockBeforeRandom ==
    (Returned /\ path # "empty" /\ ~deep /\ obvious)
    => LET own == WinCells(board_view, current_side)
           other == WinCells(board_view, swap_side(current_side))
       IN  /\ own # {} => path = "win" /\ result[1] \in own
           /\ (own = {} /\ other # {}) => path = "block" /\ result[1] \in other
           /\ (own = {} /\ other = {}) => path = "random"
           /\ path = "block" => own = {}
           /\ path = "random" =>
                 own = {} /\ other = {} /\ board_view[result[1]] = None

C7_Witness ==
    /\ Returned /\ ~deep /\ obvious /\ path = "win"
    /\ WinCells(board_view, swap_side(current_side)) # {}

\* C8: on a non-empty board with the deep path taken, the moves decide_move
\* can return are exactly the empty cells whose minimax score, as
\* _move_scores yielded it, is the maximum over the empty cells.
C8_ReturnsExactlyTheBest ==
    /\ pc = "choosing"
        => /\ {at \in Cells : CanReturn(at)} = ArgMax(move_scores)
           /\ {move_scores[k][1] : k \in 1..Len(move_scores)}
                 = {i \in Cells : board_view[i] = None}
    /\ (Returned /\ path = "deep") => result[1] \in ArgMax(move_scores)

C8_Witness ==
    /\ pc = "choosing"
    /\ Cardinality(ArgMax(move_scores)) = 2
    /\ Len(move_scores) = 3
    /\ CanReturn(move_scores[3][1])
    /\ ~CanReturn(move_scores[1][1])

---------------------------------------------------------------------------
(* Claims about _find_win_move, checked under SpecFind *)

\* the lines in the order of the scan: rows, columns, diagonals
ScanOrder ==
    << <<0, 1, 2>>, <<3, 4, 5>>, <<6, 7, 8>>, <<0, 3, 6>>, <<1, 4, 7>>,
       <<2, 5, 8>>, <<0, 4, 8>>, <<2, 4, 6>> >>

\* the line has exactly 2 cells of side and exactly 1 empty cell
Qualifies(board, side, line) ==
    /\ Cardinality({j \in 1..3 : board[line[j]] = side}) = 2
    /\ Cardinality({j \in 1..3 : board[line[j]] = None}) = 1

EmptyCellOf(board, line) == CHOOSE i \in Range(line) : board[i] = None

\* C6: _find_win_move returns the empty cell of the first line in the scan
\* order with exactly 2 cells of side and exactly 1 empty cell, also when
\* that cell is 0; it returns None exactly when no line qualifies; and a
\* mark of side on a returned cell gives side three-in-a-row.
C6_FirstQualifyingLine ==
    pc = "found" =>
        LET lines == {k \in 1..8 : Qualifies(board_view, current_side, ScanOrder[k])}
        IN  /\ lines = {} <=> result = Nothing
            /\ lines # {} =>
                  LET first == CHOOSE k \in lines : \A l \in lines : k =< l
                  IN  /\ result = Some(EmptyCellOf(board_view, ScanOrder[first]))
                      /\ board_view[result[1]] = None
                      /\ has_won([board_view EXCEPT ![result[1]] = current_side],
                                 current_side)

C6_Witness ==
    /\ pc = "found"
    /\ result = Some(0)
    /\ ~Qualifies(board_view, current_side, ScanOrder[1])
    /\ Qualifies(board_view, current_side, ScanOrder[4])
    /\ Qualifies(board_view, current_side, ScanOrder[7])

---------------------------------------------------------------------------
(* Claims about _max_score, checked under SpecEval *)

\* The reference: the value of the position for the side mover, who is to
\* move, with both sides playing optimally; 1 a win, -1 a loss, 0 a draw.
RECURSIVE Negamax(_, _)
Negamax(board, mover) ==
    IF has_won(board, swap_side(mover)) THEN -1
    ELSE IF has_won(board, mover) THEN 1
    ELSE IF \A i \in Cells : board[i] # None THEN 0
    ELSE LET after == {0 - Negamax([board EXCEPT ![i] = mover], swap_side(mover)) :
                          i \in {j \in Cells : board[j] = None}}
         IN  CHOOSE v \in after : \A w \in after : w =< v

\* the value of the position for side, when last made the last move
GameValue(board, side, last) ==
    IF side = last THEN 0 - Negamax(board, swap_side(side))
    ELSE Negamax(board, side)

\* C5: on the boards that alternating legal moves reach, with is_maximizing
\* true exactly when current_side made the last move, _max_score returns a
\* value in {-1, 0, 1}, the value of the position for current_side under
\* optimal play of both sides as the exhaustive reference computes it; a
\* full board without a winner evaluates to 0.
C5_MaxScoreIsGameValue ==
    pc = "evaluated" =>
        /\ max_score \in {-1, 0, 1}
        /\ max_score = GameValue(board_view, current_side,
                             IF maximizing THEN current_side
                             ELSE swap_side(current_side))
        /\ (Full(board_view) /\ ~has_won(board_view, "X") /\ ~has_won(board_view, "O"))
              => max_score = 0

C5_Witness ==
    /\ pc = "evaluated"
    /\ NumEmpty(board_view) = MaxDeepEmpty
    /\ ~maximizing
    /\ max_score = -1

---------------------------------------------------------------------------
(* Claims about the deep search, checked under SpecDeep *)

\* the value for side of the position after side's move at
ValueAfter(board, side, at) ==
    0 - Negamax([board EXCEPT ![at] = side], swap_side(side))

\* C2: with think_chance[0] = 1.0, from a position of a game that is not
\* over: when the side to move can force at least a draw, no move
\* decide_move can return leads to a loss under optimal play of the other
\* side; when it can force a win, every move it can return still forces the
\* win.
C2_NeverGivesAwayTheResult ==
    (pc = "choosing" /\ think_chance[1] = Scale) =>
        LET value == Negamax(board_view, current_side)
        IN  \A at \in Cells :
                CanReturn(at) =>
                    /\ value >= 0 => ValueAfter(board_view, current_side, at) >= 0
                    /\ value = 1 => ValueAfter(board_view, current_side, at) = 1

C2_Witness ==
    /\ pc = "choosing" /\ think_chance[1] = Scale
    /\ NumEmpty(board_view) = MaxDeepEmpty
    /\ Negamax(board_view, current_side) = 0
    /\ \E at \in Cells :
          /\ board_view[at] = None
          /\ ~CanReturn(at)
          /\ ValueAfter(board_view, current_side, at) = -1

---------------------------------------------------------------------------
(* Claims about the empty-board shortcut, checked under SpecOpening *)

\* the shortcut can return the cell at for the side
ShortcutCanReturn(side, at) ==
    ENABLED (EmptyShortcut(EmptyBoard, side) /\ result' = Some(at))

\* C10: on the entirely empty board every one of the 9 opening moves has
\* the same minimax score, so the cells the shortcut can return, 0..8, are
\* the moves the deep search would choose from, and none of them is worse
\* than another.
C10_ShortcutAgreesWithDeepSearch ==
    /\ pc = "idle"
        => \A side \in Side : {at \in -1..9 : ShortcutCanReturn(side, at)} = 0..8
    /\ (Returned /\ path = "empty") => result[1] \in 0..8
    /\ (pc = "choosing" /\ AllNone(board_view))
        => /\ Len(move_scores) = 9
           /\ \A k, l \in 1..9 : move_scores[k][2] = move_scores[l][2]
           /\ {at \in Cells : CanReturn(at)} = 0..8

C10_Witness ==
    /\ pc = "choosing" /\ AllNone(board_view)
    /\ current_side = "O"
    /\ Len(move_scores) = 9
    /\ CanReturn(4)

---------------------------------------------------------------------------
(* Claims about the search step by step, checked under SpecSearch *)

Moves(pairs) == [k \in 1..Len(pairs) |-> pairs[k][1]]

\* C9: the generator yields exactly one pair for each cell that was empty
\* when it started, in ascending order of the index, and removes every mark
\* it places before it yields: at every yield, and whenever _max_score
\* returns at any depth, the_board is cell for cell the board of the time
\* the call started, and a mark is placed on a board that holds no mark of
\* another explored branch.
C9_MarksAreUndone ==
    /\ pc = "searching" /\ event.kind = "yield"
        => /\ the_board = Top.start
           /\ event.move = Top.yielded[Len(Top.yielded)][1]
    /\ pc = "searching" /\ event.kind = "return"
        => the_board = event.entry
    /\ pc = "searching" /\ event.kind = "place"
        => the_board = [Top.start EXCEPT ![event.move] = event.mark]
    /\ pc = "searching" /\ event.kind = "return" /\ event.recursive
        => Moves(event.yielded) = avail_moves(event.start)
    /\ pc = "searching" /\ event.kind = "finish"
        => /\ Moves(event.yielded) = avail_moves(board_view)
           /\ the_board = board_view
    /\ pc = "searching"
        => \A d \in 1..Len(frames) :
              Moves(frames[d].yielded)
                 = SubSeq(avail_moves(frames[d].start), 1, Len(frames[d].yielded))

C9_Witness ==
    /\ pc = "searching" /\ event.kind = "yield"
    /\ Len(frames) = 3
    /\ Len(Top.yielded) = 2
    /\ Len(frames[1].yielded) = 1

\* the pairs of the search step by step are the pairs of _move_scores
SearchAgreesWithMoveScores ==
    (pc = "searching" /\ event.kind = "finish")
        => move_scores = _move_scores(board_view, current_side, TRUE)

====
